---- MODULE Spec2Model ----
(***************************************************************************)
(* Model of main.py: the checkers board prototype.                         *)
(*                                                                         *)
(* State: the GameMouse samples, the GameBoard's inner/outer tiles, its    *)
(* pieces, the highlighted tile and the selected piece, the GameResources  *)
(* image cache with the surfaces it handed out, and the position of the    *)
(* Game in its life cycle (constructed, the steps of a frame of run,       *)
(* shutdown, or ended by an exception).                                    *)
(* Object references are indices into the owning dictionaries              *)
(* (tile.index, piece.index, both starting at 1); None is 0.               *)
(***************************************************************************)
EXTENDS Integers, Sequences, FiniteSets, TLC

\* ---------------------------------------------------------------- bounds
\* width in cells of the map loaded from wood_board.tmx
MapW == 2
\* number of pieces placed by setup (GAME_BOARD_NUM_PIECES, 12 in the source)
NumPieces == 2
\* number of get_image calls made when GameResources is exercised alone
MaxCopies == 4

\* ------------------------------------------------------ program constants
\* GAME_BOARD_X is DISPLAY_WIDTH / 1.5 = 533.33..; the fraction is the same
\* for every tile and is dropped by the tile's pygame.Rect, so coordinates
\* are modelled by their integer part. GAME_BOARD_Y is DISPLAY_HEIGHT / 2.
GAME_BOARD_X == 533
GAME_BOARD_Y == 300
GAME_BOARD_TILE_WIDTH == 32
GAME_BOARD_TILE_HEIGHT == 32
GAME_BOARD_TILE_ALPHA_SELECTED == 127
GAME_BOARD_TILE_ALPHA_NORMAL == 255
None == 0

\* GameBoard._tmx_data, the map loaded by load_map: MapW columns of two
\* rows, in two layers (0 the outer, 1 the inner layer)
tmx_data == [width |-> MapW, height |-> 2, layers |-> 2]

VARIABLES
    mouse,              \* GameMouse: pressed, last_pressed, pos
    tmx_tile_data,      \* GameBoard._tmx_tile_data: layer -> index -> tile
    tmx_tile_selected,  \* GameBoard._tmx_tile_selected (inner tile index)
    pieces,             \* GameBoard._pieces: index -> piece
    piece_selected,     \* GameBoard._piece_selected (piece index)
    shutdown,           \* Game._shutdown
    pc,                 \* where the program is: "constructed" (after
                        \* Game.__init__), in Game.run at "poll" (loop
                        \* test and event loop), "tick" or "draw", or
                        \* "shutdown" (run has returned) or "crashed"
    trace,              \* which of the branches of the last board tick ran
    images,             \* GameResources._images: name -> surface
    surfaces,           \* the pygame surfaces of the cache and of the pieces
    got,                \* the outcome of the get_image calls of a caller
    calls,              \* the constructors and setups run so far, in order
    frame               \* the steps run so far in this iteration of run

vars == <<mouse, tmx_tile_data, tmx_tile_selected, pieces, piece_selected,
          shutdown, pc, trace, images, surfaces, got, calls, frame>>

\* ------------------------------------------------------------- GameMouse
\* _last_pos is written by GameMouse.tick and read by nothing in the
\* program; it is not carried in the state.
GameMouse == [pressed |-> <<0, 0, 0>>, last_pressed |-> <<0, 0, 0>>,
              pos |-> <<0, 0>>]

\* GameMouse.tick: the old sample is kept, the new one is read from pygame
MouseTick(m, buttons, p) ==
    [pressed |-> buttons, last_pressed |-> m.pressed, pos |-> p]

\* -------------------------------------------------------------- GameTile
GameTile == [index |-> 0, x |-> 0, y |-> 0, w |-> 0, h |-> 0, layer |-> 0,
             selected |-> FALSE, piece |-> None,
             alpha |-> GAME_BOARD_TILE_ALPHA_NORMAL]

\* pygame.Rect.collidepoint on the tile's rect: left and top edges are
\* inside, right and bottom edges are outside
collidepoint(t, p) ==
    /\ t.x <= p[1] /\ p[1] < t.x + t.w
    /\ t.y <= p[2] /\ p[2] < t.y + t.h

\* ------------------------------------------------------------- GamePiece
\* surface is a reference into the surfaces (an index, None before
\* place_piece sets it)
GamePiece == [index |-> 0, x |-> 0, y |-> 0, tile |-> None,
              selected |-> FALSE, blinking |-> FALSE, surface |-> None]

\* a pygame surface as far as the program looks at it: the file its
\* pixels were loaded from and its alpha
Surface == [file |-> "", alpha |-> GAME_BOARD_TILE_ALPHA_NORMAL]

\* GamePiece.tick that toggles the blink flag of unselected pieces too
PieceTick_AlwaysToggle(b, i) ==
    LET p == b.pieces[i]
        blink == ~p.blinking
    IN  [b EXCEPT !.pieces[i].blinking = blink,
                  !.surf[p.surface].alpha =
                      IF blink THEN GAME_BOARD_TILE_ALPHA_SELECTED
                               ELSE GAME_BOARD_TILE_ALPHA_NORMAL]

\* GamePiece.tick, for piece i of board b: the blink flag, then the alpha
\* of the piece's surface
PieceTick(b, i) ==
    LET p == b.pieces[i]
        blink == IF p.selected THEN ~p.blinking ELSE p.blinking
    IN  [b EXCEPT !.pieces[i].blinking = blink,
                  !.surf[p.surface].alpha =
                      IF blink THEN GAME_BOARD_TILE_ALPHA_SELECTED
                               ELSE GAME_BOARD_TILE_ALPHA_NORMAL]

\* ------------------------------------------------------------- GameBoard
\* The board is threaded through the operators below as a record:
\*   tiles  = _tmx_tile_data,  sel = _tmx_tile_selected,
\*   pieces = _pieces,         psel = _piece_selected,
\*   err    = an exception was raised (attribute access on None),
\*   tr     = the branches of tick taken so far, and the piece that was
\*            selected when the tick began with its blink flag at that time,
\*            and whether clear_selected_tile was called (untiled),
\*   images = _game.resources._images, surf = the surfaces,
\*   ret    = the value returned by the last get_image,
\*   calls  = the constructors and setups run so far,
\*   log    = the steps of the current frame run so far.
NoTrace == [switched |-> FALSE, selected |-> FALSE, moved |-> FALSE,
            prev |-> None, blink |-> FALSE, untiled |-> FALSE]

GameBoard == [tiles |-> <<<<>>, <<>>>>, sel |-> None, pieces |-> <<>>,
              psel |-> None, err |-> FALSE, tr |-> NoTrace,
              images |-> <<>>, surf |-> <<>>, ret |-> None,
              calls |-> <<"GameMouse", "GameResources", "GameBoard">>,
              log |-> <<>>]

\* a call that has been entered / a step of the frame that has been run,
\* unless an exception is on its way up
Called(b, what) == IF b.err THEN b ELSE [b EXCEPT !.calls = Append(@, what)]
Did(b, step) == IF b.err THEN b ELSE [b EXCEPT !.log = Append(@, step)]

\* ---------------------------------------------------------- GameResources
\* the names GameResources.setup registers
ImageNames == <<"piece_black", "piece_black_king">>
ImageFiles == <<"checker_piece_black.png", "checker_piece_black_king.png">>

\* load_image, the image files being there
load_image(filepath) == [Surface EXCEPT !.file = filepath]

\* GameResources.setup from name k of ImageNames on: load_image makes a new
\* surface, which is stored under the name (the image files exist)
RECURSIVE LoadImages(_, _)
LoadImages(b, k) ==
    IF k > Len(ImageNames) THEN b
    ELSE LoadImages([b EXCEPT
                        !.surf = Append(@, load_image(ImageFiles[k])),
                        !.images = [n \in DOMAIN @ \cup {ImageNames[k]} |->
                                      IF n = ImageNames[k] THEN Len(b.surf) + 1
                                      ELSE @[n]]],
                    k + 1)

\* GameResources.setup
ResourcesSetup(b) ==
    IF b.err THEN b ELSE LoadImages(Called(b, "GameResources.setup"), 1)

\* get_image that hands out the cached surface itself
get_image_NoCopy(b, name) ==
    IF b.err THEN b
    ELSE IF name \notin DOMAIN b.images THEN [b EXCEPT !.err = TRUE]
    ELSE [b EXCEPT !.ret = b.images[name]]

\* GameResources.get_image: a copy of the cached surface, RuntimeError for
\* a name that is not in the cache
get_image(b, name) ==
    IF b.err THEN b
    ELSE IF name \notin DOMAIN b.images THEN [b EXCEPT !.err = TRUE]
    ELSE [b EXCEPT !.surf = Append(@, b.surf[b.images[name]]),
                   !.ret = Len(b.surf) + 1]

\* Layers are 0 and 1 in the source; sequences start at 1, so layer l is
\* stored at position l + 1.
Outer == 1
Inner == 2

\* GameBoard.place_tile. The rect of a tile is that of its image; the map's
\* tile images are GAME_BOARD_TILE_WIDTH by GAME_BOARD_TILE_HEIGHT pixels.
place_tile(b, x, y, layer) ==
    LET tile == [GameTile EXCEPT
                    !.index = Len(b.tiles[layer + 1]) + 1,
                    !.w = GAME_BOARD_TILE_WIDTH,
                    !.h = GAME_BOARD_TILE_HEIGHT,
                    !.x = x * GAME_BOARD_TILE_WIDTH,
                    !.y = y * GAME_BOARD_TILE_HEIGHT,
                    !.layer = layer]
    IN  [b EXCEPT !.tiles[layer + 1] = Append(@, tile)]

\* GameBoard.place_piece
place_piece(b, t, surface) ==
    LET piece == [GamePiece EXCEPT
                    !.index = Len(b.pieces) + 1,
                    !.surface = surface,
                    !.x = b.tiles[Inner][t].x,
                    !.y = b.tiles[Inner][t].y,
                    !.tile = t]
    IN  [b EXCEPT !.pieces = Append(@, piece),
                  !.tiles[Inner][t].piece = piece.index]

\* clear_selected_tile that forgets to reset the tile's selected flag
clear_selected_tile_KeepFlag(b) ==
    IF b.err THEN b
    ELSE IF b.sel = None THEN [b EXCEPT !.err = TRUE]
    ELSE [b EXCEPT !.sel = None, !.tr.untiled = TRUE]

\* GameBoard.clear_selected_tile; with no tile referenced the first
\* attribute access raises
clear_selected_tile(b) ==
    IF b.err THEN b
    ELSE IF b.sel = None THEN [b EXCEPT !.err = TRUE]
    ELSE [b EXCEPT !.tiles[Inner][b.sel].selected = FALSE,
                   !.tiles[Inner][b.sel].alpha = GAME_BOARD_TILE_ALPHA_NORMAL,
                   !.sel = None,
                   !.tr.untiled = TRUE]

\* GameBoard.set_selected_tile
set_selected_tile(b, t) ==
    IF b.err THEN b
    ELSE [b EXCEPT !.sel = t,
                   !.tiles[Inner][t].selected = TRUE,
                   !.tiles[Inner][t].alpha = GAME_BOARD_TILE_ALPHA_SELECTED]

\* clear_selected_piece that forgets to reset the piece's blink flag
clear_selected_piece_KeepBlink(b) ==
    IF b.err THEN b
    ELSE IF b.psel = None THEN [b EXCEPT !.err = TRUE]
    ELSE [b EXCEPT !.pieces[b.psel].selected = FALSE,
                   !.psel = None]

\* clear_selected_piece that forgets to reset the piece's selected flag
clear_selected_piece_KeepFlag(b) ==
    IF b.err THEN b
    ELSE IF b.psel = None THEN [b EXCEPT !.err = TRUE]
    ELSE [b EXCEPT !.pieces[b.psel].blinking = FALSE,
                   !.psel = None]

\* GameBoard.clear_selected_piece. The assignment to piece.blinking goes
\* through the setter declared with @tile.setter, which stores _blinking.
clear_selected_piece(b) ==
    IF b.err THEN b
    ELSE IF b.psel = None THEN [b EXCEPT !.err = TRUE]
    ELSE [b EXCEPT !.pieces[b.psel].selected = FALSE,
                   !.pieces[b.psel].blinking = FALSE,
                   !.psel = None]

\* GameBoard.set_selected_piece
set_selected_piece(b, p) ==
    IF b.err THEN b
    ELSE [b EXCEPT !.psel = p, !.pieces[p].selected = TRUE]

\* move_selected_piece that forgets to update the piece's home tile
move_selected_piece_NoHome(b, p, t) ==
    LET b1 == [b EXCEPT !.pieces[p].x = b.tiles[Inner][t].x,
                        !.pieces[p].y = b.tiles[Inner][t].y]
        b2 == [b1 EXCEPT !.tiles[Inner][b1.pieces[p].tile].piece = None]
        b4 == [b2 EXCEPT !.tiles[Inner][t].piece = p]
    IN  clear_selected_piece(b4)

\* move_selected_piece that forgets to set the new tile's occupant
move_selected_piece_NoLink(b, p, t) ==
    LET b1 == [b EXCEPT !.pieces[p].x = b.tiles[Inner][t].x,
                        !.pieces[p].y = b.tiles[Inner][t].y]
        b2 == [b1 EXCEPT !.tiles[Inner][b1.pieces[p].tile].piece = None]
        b3 == [b2 EXCEPT !.pieces[p].tile = t]
    IN  clear_selected_piece(b3)

\* move_selected_piece that forgets to clear the old tile's occupant
move_selected_piece_KeepOld(b, p, t) ==
    LET b1 == [b EXCEPT !.pieces[p].x = b.tiles[Inner][t].x,
                        !.pieces[p].y = b.tiles[Inner][t].y]
        b3 == [b1 EXCEPT !.pieces[p].tile = t]
        b4 == [b3 EXCEPT !.tiles[Inner][t].piece = p]
    IN  clear_selected_piece(b4)

\* GameBoard.move_selected_piece
move_selected_piece(b, p, t) ==
    LET b1 == [b EXCEPT !.pieces[p].x = b.tiles[Inner][t].x,
                        !.pieces[p].y = b.tiles[Inner][t].y]
        b2 == [b1 EXCEPT !.tiles[Inner][b1.pieces[p].tile].piece = None]
        b3 == [b2 EXCEPT !.pieces[p].tile = t]
        b4 == [b3 EXCEPT !.tiles[Inner][t].piece = p]
    IN  clear_selected_piece(b4)

\* GameBoard.setup, the tile loops: cell k of the x / y / layer nesting.
\* Every cell of the map carries an image in both layers.
RECURSIVE PlaceTiles(_, _)
PlaceTiles(b, k) ==
    IF k >= tmx_data.width * tmx_data.height * tmx_data.layers THEN b
    ELSE PlaceTiles(place_tile(b,
                               k \div (tmx_data.height * tmx_data.layers),
                               (k \div tmx_data.layers) % tmx_data.height,
                               k % tmx_data.layers),
                    k + 1)

\* GameBoard.setup, the offset loop over all_tiles
OffsetTiles(b, bx, by) ==
    LET n == Len(b.tiles[Outer]) + Len(b.tiles[Inner])
        x_modd == n + GAME_BOARD_TILE_WIDTH
        y_modd == n + GAME_BOARD_TILE_HEIGHT
        shift(t) == [t EXCEPT !.x = @ + bx - x_modd, !.y = @ + by - y_modd]
    IN  [b EXCEPT !.tiles = [l \in DOMAIN b.tiles |->
                               [i \in DOMAIN b.tiles[l] |-> shift(b.tiles[l][i])]]]

\* GameBoard.setup, the piece loop: choice[k] is the k-th random.choice;
\* an exception of get_image ends the loop
RECURSIVE PlacePieces(_, _, _)
PlacePieces(b, choice, k) ==
    IF b.err \/ k > Len(choice) THEN b
    ELSE LET g == get_image(b, "piece_black")
         IN  PlacePieces(IF g.err THEN g ELSE place_piece(g, choice[k], g.ret),
                         choice, k + 1)

\* GameBoard.setup up to the piece loop, with the board at the position
\* Game.__init__ gave it
SetupTiles(b) ==
    OffsetTiles(PlaceTiles(b, 0), GAME_BOARD_X, GAME_BOARD_Y)

\* GameBoard.setup
BoardSetup(b, choice) ==
    IF b.err THEN b
    ELSE PlacePieces(SetupTiles(Called(b, "GameBoard.setup")), choice, 1)

\* Game.setup with the two setups in the other order
GameSetup_BoardFirst(b, choice) == ResourcesSetup(BoardSetup(b, choice))

\* Game.setup
GameSetup(b, choice) == BoardSetup(ResourcesSetup(b), choice)

\* the highlight loop without the test that a tile is referenced before
\* clear_selected_tile is called for the tile under the pointer
RECURSIVE HighlightLoop_AlwaysClear(_, _, _)
HighlightLoop_AlwaysClear(b, pos, i) ==
    IF b.err \/ i > Len(b.tiles[Inner]) THEN b
    ELSE LET tile == b.tiles[Inner][i]
             b1 == IF collidepoint(tile, pos)
                   THEN set_selected_tile(clear_selected_tile(b), i)
                   ELSE IF tile.selected THEN clear_selected_tile(b) ELSE b
         IN  HighlightLoop_AlwaysClear(b1, pos, i + 1)

\* GameBoard.tick, the highlight loop over the inner tiles, from tile i on
RECURSIVE HighlightLoop(_, _, _)
HighlightLoop(b, pos, i) ==
    IF b.err \/ i > Len(b.tiles[Inner]) THEN b
    ELSE LET tile == b.tiles[Inner][i]
             b1 == IF collidepoint(tile, pos)
                   THEN set_selected_tile(
                            IF b.sel # None THEN clear_selected_tile(b) ELSE b,
                            i)
                   ELSE IF tile.selected THEN clear_selected_tile(b) ELSE b
         IN  HighlightLoop(b1, pos, i + 1)

\* the piece on the highlighted tile (None when no tile is highlighted)
SelectedTilePiece(b) ==
    IF b.sel = None THEN None ELSE b.tiles[Inner][b.sel].piece

\* the first condition of tick left out: a click on an occupied tile while
\* a piece is selected does nothing
SwitchStep_Absent(b, m) == b

\* GameBoard.tick, first condition: the button is down, a piece is selected
\* and the highlighted tile holds a piece
SwitchStep(b, m) ==
    IF /\ ~b.err
       /\ m.pressed[1] # 0 /\ b.psel # None
       /\ b.sel # None /\ SelectedTilePiece(b) # None
    THEN [set_selected_piece(clear_selected_piece(b), SelectedTilePiece(b))
            EXCEPT !.tr.switched = TRUE]
    ELSE b

\* GameBoard.tick, second condition: press edge, nothing selected, the
\* highlighted tile holds a piece
SelectStep(b, m) ==
    IF /\ ~b.err
       /\ m.last_pressed[1] = 0 /\ m.pressed[1] # 0 /\ b.psel = None
       /\ b.sel # None /\ SelectedTilePiece(b) # None
    THEN [set_selected_piece(b, SelectedTilePiece(b))
            EXCEPT !.tr.selected = TRUE]
    ELSE b

\* the third condition of tick without the press-edge test
MoveStep_NoEdge(b, m) ==
    IF /\ ~b.err
       /\ m.pressed[1] # 0 /\ b.psel # None
       /\ b.sel # None /\ SelectedTilePiece(b) = None
    THEN [move_selected_piece(b, b.psel, b.sel) EXCEPT !.tr.moved = TRUE]
    ELSE b

\* GameBoard.tick, third condition: press edge, a piece selected, the
\* highlighted tile is empty
MoveStep(b, m) ==
    IF /\ ~b.err
       /\ m.last_pressed[1] = 0 /\ m.pressed[1] # 0 /\ b.psel # None
       /\ b.sel # None /\ SelectedTilePiece(b) = None
    THEN [move_selected_piece(b, b.psel, b.sel) EXCEPT !.tr.moved = TRUE]
    ELSE b

\* GameBoard.tick, the piece loop from piece i on
RECURSIVE BlinkLoop(_, _)
BlinkLoop(b, i) ==
    IF i > Len(b.pieces) THEN b ELSE BlinkLoop(PieceTick(b, i), i + 1)

\* GameBoard.tick, the piece loop
BlinkStep(b) ==
    IF b.err THEN b ELSE BlinkLoop(b, 1)

\* GameBoard.tick with the selection/move resolution before the highlight
\* refresh
BoardTick_ResolveFirst(b, m) ==
    LET b1 == Did(MoveStep(SelectStep(SwitchStep(b, m), m), m), "resolve")
        b2 == Did(HighlightLoop(b1, m.pos, 1), "highlight")
    IN  Did(BlinkStep(b2), "blink")

\* GameBoard.tick: the highlight loop, the three conditions, the piece loop
BoardTick(b, m) ==
    LET b1 == Did(HighlightLoop(b, m.pos, 1), "highlight")
        b2 == Did(MoveStep(SelectStep(SwitchStep(b1, m), m), m), "resolve")
    IN  Did(BlinkStep(b2), "blink")

\* ------------------------------------------------------------------ Game
\* the board object as held in the variables
Board ==
    [tiles |-> tmx_tile_data, sel |-> tmx_tile_selected, pieces |-> pieces,
     psel |-> piece_selected, err |-> FALSE,
     tr |-> [NoTrace EXCEPT
                !.prev = piece_selected,
                !.blink = IF piece_selected = None THEN FALSE
                          ELSE pieces[piece_selected].blinking],
     images |-> images, surf |-> surfaces, ret |-> None,
     calls |-> calls, log |-> frame]

\* the board written back to the variables
StoreBoard(b) ==
    /\ tmx_tile_data' = b.tiles
    /\ tmx_tile_selected' = b.sel
    /\ pieces' = b.pieces
    /\ piece_selected' = b.psel
    /\ trace' = b.tr
    /\ surfaces' = b.surf
    /\ calls' = b.calls
    /\ frame' = b.log

\* what pygame.mouse.get_pressed() can return
Buttons == {<<0, 0, 0>>, <<1, 0, 0>>}

\* what pygame.mouse.get_pos() can return: the display origin, the top-left
\* pixel of every inner tile, the bottom-right pixel of the first inner
\* tile, and the pixels just left of the first and just right of the last
\* inner tile
Positions ==
    LET ts == tmx_tile_data[Inner]
        first == ts[1]
        last == ts[Len(ts)]
    IN  {<<0, 0>>}
        \cup {<<ts[i].x, ts[i].y>> : i \in DOMAIN ts}
        \cup {<<first.x + first.w - 1, first.y + first.h - 1>>,
              <<first.x - 1, first.y>>,
              <<last.x + last.w, last.y>>}

\* no get_image call made yet: the surfaces handed out, whether the last
\* call raised, and the name it was given
NoCalls == [ids |-> <<>>, err |-> FALSE, name |-> ""]

\* Game.__init__
Init ==
    /\ mouse = GameMouse
    /\ tmx_tile_data = GameBoard.tiles
    /\ tmx_tile_selected = GameBoard.sel
    /\ pieces = GameBoard.pieces
    /\ piece_selected = GameBoard.psel
    /\ shutdown = FALSE
    /\ pc = "constructed"
    /\ trace = NoTrace
    /\ images = GameBoard.images
    /\ surfaces = GameBoard.surf
    /\ got = NoCalls
    /\ calls = GameBoard.calls
    /\ frame = GameBoard.log

\* Game.setup, followed by the entry into Game.run
Setup ==
    /\ pc = "constructed"
    /\ \E choice \in [1..NumPieces -> DOMAIN SetupTiles(Board).tiles[Inner]] :
          LET b == GameSetup(Board, choice)
          IN  /\ StoreBoard(b)
              /\ images' = b.images
              /\ pc' = IF b.err THEN "crashed" ELSE "poll"
    /\ UNCHANGED <<mouse, shutdown, got>>

\* Game.run, the loop test and an event loop that finds no QUIT event
RunPoll ==
    /\ pc = "poll"
    /\ ~shutdown
    /\ pc' = "tick"
    /\ frame' = <<>>
    /\ UNCHANGED <<mouse, tmx_tile_data, tmx_tile_selected, pieces,
                   piece_selected, shutdown, trace, images, surfaces, got,
                   calls>>

\* Game.run with the QUIT event taken wherever the loop is
RunQuit_MidFrame ==
    /\ pc \in {"poll", "tick", "draw"}
    /\ shutdown' = TRUE
    /\ pc' = "shutdown"
    /\ UNCHANGED <<mouse, tmx_tile_data, tmx_tile_selected, pieces,
                   piece_selected, trace, images, surfaces, got, calls,
                   frame>>

\* Game.run, the loop test and an event loop that finds a QUIT event
RunQuit ==
    /\ pc = "poll"
    /\ ~shutdown
    /\ shutdown' = TRUE
    /\ pc' = "shutdown"
    /\ UNCHANGED <<mouse, tmx_tile_data, tmx_tile_selected, pieces,
                   piece_selected, trace, images, surfaces, got, calls,
                   frame>>

\* Game.tick, m being the mouse after GameMouse.tick
GameTick(b, m) == BoardTick(Did(b, "mouse"), m)

\* Game.run, the call of Game.tick
RunTick ==
    /\ pc = "tick"
    /\ \E buttons \in Buttons, p \in Positions :
          LET m == MouseTick(mouse, buttons, p)
              b == GameTick(Board, m)
          IN  /\ mouse' = m
              /\ StoreBoard(b)
              /\ pc' = IF b.err THEN "crashed" ELSE "draw"
    /\ UNCHANGED <<shutdown, images, got>>

\* Game.run, the call of Game.draw (and the caption): nothing of the state
\* is written
RunDraw ==
    /\ pc = "draw"
    /\ frame' = Append(frame, "draw")
    /\ pc' = "poll"
    /\ UNCHANGED <<mouse, tmx_tile_data, tmx_tile_selected, pieces,
                   piece_selected, shutdown, trace, images, surfaces, got,
                   calls>>

Next == Setup \/ RunPoll \/ RunQuit \/ RunTick \/ RunDraw

Spec == Init /\ [][Next]_vars

\* ------------------------------------------- GameResources on its own
\* The resource cache exercised by a caller that asks for any name at any
\* time and changes the alpha of the surfaces it was given.
Names == {"piece_black", "piece_black_king", "piece_white"}

\* GameResources.setup
ResSetup ==
    /\ pc = "constructed"
    /\ DOMAIN images = {}
    /\ LET b == ResourcesSetup(Board)
       IN  images' = b.images /\ surfaces' = b.surf /\ calls' = b.calls
    /\ UNCHANGED <<mouse, tmx_tile_data, tmx_tile_selected, pieces,
                   piece_selected, shutdown, pc, trace, got, frame>>

\* GameResources.get_image(name); the caller keeps the surface it is given
ResGet ==
    /\ pc = "constructed"
    /\ Len(got.ids) < MaxCopies
    /\ \E name \in Names :
          LET b == get_image(Board, name)
          IN  /\ surfaces' = b.surf
              /\ got' = [ids |-> IF b.err THEN got.ids
                                 ELSE Append(got.ids, b.ret),
                         err |-> b.err, name |-> name]
    /\ UNCHANGED <<mouse, tmx_tile_data, tmx_tile_selected, pieces,
                   piece_selected, shutdown, pc, trace, images, calls,
                   frame>>

\* the caller's surface.set_alpha on one of the surfaces it was given
ResSetAlpha ==
    /\ pc = "constructed"
    /\ \E k \in DOMAIN got.ids :
       \E a \in {GAME_BOARD_TILE_ALPHA_SELECTED, GAME_BOARD_TILE_ALPHA_NORMAL} :
          surfaces' = [surfaces EXCEPT ![got.ids[k]].alpha = a]
    /\ UNCHANGED <<mouse, tmx_tile_data, tmx_tile_selected, pieces,
                   piece_selected, shutdown, pc, trace, images, got, calls,
                   frame>>

NextRes == ResSetup \/ ResGet \/ ResSetAlpha

SpecRes == Init /\ [][NextRes]_vars

\* ---------------------------------------------------------- vocabulary
Tiles == DOMAIN tmx_tile_data[Inner]
Pieces == DOMAIN pieces
InnerTile(t) == tmx_tile_data[Inner][t]
InnerTileAfter(t) == tmx_tile_data'[Inner][t]

\* the step of Game.run that runs Game.tick
FrameStep == pc = "tick" /\ pc' = "draw"

\* the left button as sampled by the last / by the coming mouse tick
PressEdge == mouse.last_pressed[1] = 0 /\ mouse.pressed[1] # 0
Held == mouse.last_pressed[1] # 0 /\ mouse.pressed[1] # 0

\* the place of a call in the order of calls, 0 when it was not made
Place(what) ==
    IF \E i \in DOMAIN calls : calls[i] = what
    THEN CHOOSE i \in DOMAIN calls : calls[i] = what
    ELSE 0

\* the names the cache holds are those GameResources.setup registers
Populated == DOMAIN images = {ImageNames[k] : k \in DOMAIN ImageNames}

\* the steps of a complete frame, in the order Game.run makes them
FullFrame == <<"mouse", "highlight", "resolve", "blink", "draw">>

\* --------------------------------------------------------------- claims

\* C1: after setup and any ticks every piece P satisfies P.tile.piece = P.
\* (Stated as claimed; setup draws the tiles with replacement, so two
\* pieces can be given the same tile and the earlier one loses the link.)
C1_PieceTileMutual ==
    pc # "constructed" =>
        \A p \in Pieces : InnerTile(pieces[p].tile).piece = p

\* C2: after setup no two distinct pieces have the same home tile.
\* (Stated as claimed; violated by a setup that draws one tile twice.)
C2_OnePiecePerTile ==
    pc # "constructed" =>
        \A p, q \in Pieces : p # q => pieces[p].tile # pieces[q].tile

\* C3: every tile whose occupant is a piece P is P's home tile.
C3_OccupantHome ==
    \A t \in Tiles :
        InnerTile(t).piece # None => pieces[InnerTile(t).piece].tile = t

\* a move has happened and the moved piece sits on the highlighted tile
C3_Witness ==
    /\ trace.moved
    /\ tmx_tile_selected # None
    /\ InnerTile(tmx_tile_selected).piece = trace.prev
    /\ pieces[trace.prev].tile = tmx_tile_selected

\* C4: at most one piece has its selected flag set, and a piece has the
\* flag set exactly when it is _piece_selected.
C4_SingleSelection ==
    /\ Cardinality({p \in Pieces : pieces[p].selected}) <= 1
    /\ \A p \in Pieces : pieces[p].selected <=> piece_selected = p

\* the selection has just been switched from one piece to another
C4_Witness ==
    /\ trace.switched
    /\ trace.prev # None
    /\ piece_selected # None
    /\ piece_selected # trace.prev
    /\ pieces[piece_selected].selected
    /\ ~pieces[trace.prev].selected

\* C5: a press edge over an empty highlighted tile T while P is selected
\* moves P to T: P takes T's position, P's home is T, T's occupant is P, P's
\* old home has no occupant, and nothing is selected afterwards.
C5_MoveToEmptyTile ==
    [][(/\ FrameStep
        /\ piece_selected # None
        /\ PressEdge'
        /\ tmx_tile_selected' # None
        /\ InnerTile(tmx_tile_selected').piece = None)
       => LET P == piece_selected
              T == tmx_tile_selected'
              old == pieces[P].tile
          IN  /\ pieces'[P].x = InnerTileAfter(T).x
              /\ pieces'[P].y = InnerTileAfter(T).y
              /\ pieces'[P].tile = T
              /\ InnerTileAfter(T).piece = P
              /\ InnerTileAfter(old).piece = None
              /\ piece_selected' = None]_vars

\* a piece has just been moved away from a tile that is now empty
C5_Witness ==
    /\ trace.moved
    /\ PressEdge
    /\ piece_selected = None
    /\ \E t \in Tiles : t # tmx_tile_selected /\ InnerTile(t).piece = None
    /\ pieces[trace.prev].x = InnerTile(tmx_tile_selected).x
    /\ pieces[trace.prev].y = InnerTile(tmx_tile_selected).y

\* C6: a click on an occupied tile holding Q while P is selected switches
\* the selection to Q and moves nothing.
C6_SwitchMovesNothing ==
    [][(/\ FrameStep
        /\ piece_selected # None
        /\ PressEdge'
        /\ tmx_tile_selected' # None
        /\ InnerTile(tmx_tile_selected').piece # None)
       => /\ piece_selected' = InnerTile(tmx_tile_selected').piece
          /\ \A p \in Pieces :
                /\ pieces'[p].x = pieces[p].x
                /\ pieces'[p].y = pieces[p].y
                /\ pieces'[p].tile = pieces[p].tile
          /\ \A t \in Tiles : InnerTileAfter(t).piece = InnerTile(t).piece]_vars

\* a press edge has just switched the selection to another piece
C6_Witness ==
    /\ PressEdge
    /\ trace.switched
    /\ trace.prev # None
    /\ piece_selected # trace.prev
    /\ InnerTile(tmx_tile_selected).piece = piece_selected

\* C7: a click on an empty inner tile while nothing is selected changes
\* nothing: no selection, and positions, home tiles, blink flags and
\* occupants stay as they were.
C7_EmptyClickNoChange ==
    [][(/\ FrameStep
        /\ piece_selected = None
        /\ PressEdge'
        /\ tmx_tile_selected' # None
        /\ InnerTile(tmx_tile_selected').piece = None)
       => /\ piece_selected' = None
          /\ \A p \in Pieces :
                /\ pieces'[p].x = pieces[p].x
                /\ pieces'[p].y = pieces[p].y
                /\ pieces'[p].tile = pieces[p].tile
                /\ pieces'[p].blinking = pieces[p].blinking
          /\ \A t \in Tiles : InnerTileAfter(t).piece = InnerTile(t).piece]_vars

\* a press edge over an empty tile, with nothing selected before or after
C7_Witness ==
    /\ PressEdge
    /\ trace.prev = None
    /\ piece_selected = None
    /\ tmx_tile_selected # None
    /\ InnerTile(tmx_tile_selected).piece = None
    /\ Pieces # {}

\* C8: no tick both selects and moves, and a move happens only on a press
\* edge, never in a later tick of the hold that selected the piece.
C8_NoSelectAndMove ==
    /\ ~(trace.moved /\ (trace.selected \/ trace.switched))
    /\ trace.moved => PressEdge
    /\ Held => ~trace.moved

\* the button is still held after a selection, over an empty tile, and the
\* selected piece has stayed where it was
C8_Witness ==
    /\ Held
    /\ piece_selected # None
    /\ trace.prev = piece_selected
    /\ tmx_tile_selected # None
    /\ InnerTile(tmx_tile_selected).piece = None
    /\ ~trace.moved

\* C9: the selected piece changes only in a tick with a press edge; while
\* the button is merely held it stays the same.
\* (Stated as claimed; the first condition of tick has no press-edge test.)
C9_SelectionChangesOnEdgeOnly ==
    [][(FrameStep /\ ~PressEdge') => piece_selected' = piece_selected]_vars

\* C10: after the highlight step a tile is flagged selected exactly when it
\* is under the pointer, at most one tile is flagged, _tmx_tile_selected is
\* that tile, and it is None when the pointer is over no inner tile.
C10_Highlight ==
    [][FrameStep =>
        /\ \A t \in Tiles :
              InnerTileAfter(t).selected <=> collidepoint(InnerTileAfter(t), mouse'.pos)
        /\ Cardinality({t \in Tiles : InnerTileAfter(t).selected}) <= 1
        /\ \A t \in Tiles : InnerTileAfter(t).selected <=> tmx_tile_selected' = t
        /\ (tmx_tile_selected' = None) <=>
              ~\E t \in Tiles : collidepoint(InnerTileAfter(t), mouse'.pos)]_vars

\* the pointer is on the last pixel of a tile and that tile is highlighted
C10_Witness ==
    /\ tmx_tile_selected # None
    /\ InnerTile(tmx_tile_selected).selected
    /\ mouse.pos[1] = InnerTile(tmx_tile_selected).x + GAME_BOARD_TILE_WIDTH - 1
    /\ mouse.pos[2] = InnerTile(tmx_tile_selected).y + GAME_BOARD_TILE_HEIGHT - 1

\* C11: while a piece stays selected its blink flag alternates every tick:
\* if the same piece is selected at the end of two consecutive ticks, its
\* blink flag at the end of the second is the negation of the first.
\* (Stated as claimed; while the button is down over an occupied tile the
\* first condition of tick clears and re-selects, which resets the flag.)
C11_BlinkAlternates ==
    [][(/\ FrameStep
        /\ piece_selected # None
        /\ piece_selected' = piece_selected)
       => pieces'[piece_selected].blinking = ~pieces[piece_selected].blinking]_vars

\* C12: every piece that is not selected has its blink flag false and is
\* fully opaque, also one that was deselected while its blink flag was true.
C12_UnselectedOpaque ==
    \A p \in Pieces :
        ~pieces[p].selected =>
            /\ ~pieces[p].blinking
            /\ surfaces[pieces[p].surface].alpha = GAME_BOARD_TILE_ALPHA_NORMAL

\* a piece whose blink flag was true has just been deselected by a move
C12_Witness ==
    /\ trace.moved
    /\ trace.prev # None
    /\ trace.blink
    /\ ~pieces[trace.prev].selected
    /\ ~pieces[trace.prev].blinking
    /\ surfaces[pieces[trace.prev].surface].alpha = GAME_BOARD_TILE_ALPHA_NORMAL

\* C13: a piece selected at the end of a tick is still selected at the end
\* of the next tick unless that tick moved it to an empty tile or a click
\* (press edge) on an occupied tile switched the selection.
\* (Stated as claimed; the first condition of tick also switches the
\* selection while the button is merely held over another occupied tile.)
C13_SelectionPersists ==
    (trace.prev # None /\ piece_selected # trace.prev) =>
        \/ trace.moved
        \/ trace.switched /\ PressEdge

\* C14: get_image raises for every name that is not in the cache and then
\* leaves the cache as it was; for a name in the cache every call returns a
\* new surface with the cached content, and changing the alpha of one
\* returned surface changes neither a cached surface nor another returned
\* one.
C14_GetImage ==
    [][/\ (got' # got) =>
            /\ got'.err <=> got'.name \notin DOMAIN images
            /\ images' = images
            /\ got'.err => (surfaces' = surfaces /\ got'.ids = got.ids)
            /\ ~got'.err =>
                  LET id == got'.ids[Len(got'.ids)]
                  IN  /\ id \notin DOMAIN surfaces
                      /\ surfaces'[id] = surfaces[images[got'.name]]
                      /\ \A j \in DOMAIN surfaces : surfaces'[j] = surfaces[j]
       /\ (got' = got /\ DOMAIN images' = DOMAIN images) =>
            /\ \A n \in DOMAIN images :
                  surfaces'[images[n]] = surfaces[images[n]]
            /\ \E k \in DOMAIN got.ids :
                  \A j \in DOMAIN got.ids \ {k} :
                      surfaces'[got.ids[j]] = surfaces[got.ids[j]]]_vars

\* two surfaces returned for the same name differ in alpha, the cached one
\* is untouched, and the last call, for an unknown name, has raised
C14_Witness ==
    /\ Len(got.ids) >= 2
    /\ surfaces[got.ids[1]].alpha = GAME_BOARD_TILE_ALPHA_SELECTED
    /\ surfaces[got.ids[2]].alpha = GAME_BOARD_TILE_ALPHA_NORMAL
    /\ got.err
    /\ got.name \notin DOMAIN images
    /\ \A n \in DOMAIN images :
          surfaces[images[n]].alpha = GAME_BOARD_TILE_ALPHA_NORMAL

\* C15 as claimed: the cache is populated before the board controller is
\* built. (Game.__init__ constructs the GameBoard; the cache is populated
\* only later, by Game.setup.)
C15_CacheBeforeBoardBuilt ==
    pc # "constructed" =>
        /\ Place("GameResources.setup") > 0
        /\ Place("GameResources.setup") < Place("GameBoard")

\* C15 amended: the cache is populated before the board controller is set
\* up (GameBoard.setup, which places tiles and pieces), it is populated
\* exactly once, and afterwards neither the cache nor a cached surface
\* changes.
C15_CacheBeforeBoardSetup ==
    [][/\ (Place("GameBoard.setup") > 0)' =>
            /\ (Place("GameResources.setup") > 0)'
            /\ (Place("GameResources.setup") < Place("GameBoard.setup"))'
       /\ (tmx_tile_data'[Inner] # <<>> \/ pieces' # <<>>) => Populated'
       /\ Cardinality({i \in DOMAIN calls' :
                          calls'[i] = "GameResources.setup"}) <= 1
       /\ pc # "constructed" =>
            /\ images' = images
            /\ calls' = calls
            /\ \A n \in DOMAIN images :
                  surfaces'[images[n]] = surfaces[images[n]]]_vars

\* the game runs with a populated cache, a piece's own surface has been
\* made translucent and the cached surfaces are as they were loaded
C15_Witness ==
    /\ pc = "draw"
    /\ Populated
    /\ \E p \in Pieces :
          surfaces[pieces[p].surface].alpha = GAME_BOARD_TILE_ALPHA_SELECTED
    /\ \A k \in DOMAIN ImageNames :
          surfaces[images[ImageNames[k]]] = load_image(ImageFiles[k])

\* C16: the shutdown flag is set only where the loop polls the events, by
\* a QUIT event; once it is set nothing happens any more (no input sample,
\* board tick or draw); and a frame is never cut short: a frame whose tick
\* has run goes on to its draw, and the flag is never set in between.
C16_ShutdownBetweenFrames ==
    [][/\ (shutdown' # shutdown) =>
            (pc = "poll" /\ shutdown' /\ pc' = "shutdown")
       /\ ~shutdown
       /\ pc = "tick" => (pc' = "draw" /\ ~shutdown')
       /\ pc = "draw" => (pc' = "poll" /\ ~shutdown' /\ frame' = FullFrame)
       /\ pc' = "shutdown" => (shutdown' /\ frame \in {<<>>, FullFrame})]_vars

\* the run has been shut down after a frame that moved a piece and was
\* drawn
C16_Witness ==
    /\ shutdown
    /\ pc = "shutdown"
    /\ frame = FullFrame
    /\ trace.moved

\* what the selection/move resolution of the last tick did agrees with the
\* mouse sample of that tick: the piece it selected is the one on the tile
\* under the sampled pointer, the piece it moved went to that tile
ResolvedOnCurrentSample ==
    /\ (trace.selected \/ trace.switched) =>
          /\ mouse.pressed[1] # 0
          /\ tmx_tile_selected # None
          /\ collidepoint(InnerTile(tmx_tile_selected), mouse.pos)
          /\ InnerTile(tmx_tile_selected).piece = piece_selected
    /\ trace.moved =>
          /\ PressEdge
          /\ tmx_tile_selected # None
          /\ collidepoint(InnerTile(tmx_tile_selected), mouse.pos)
          /\ pieces[trace.prev].tile = tmx_tile_selected

\* C17: every frame runs its steps once each and in this order: the mouse
\* is sampled, the board tick refreshes the highlight, resolves selection
\* and move, ticks the pieces, and then the board is drawn; so the
\* resolution acts on the highlight of the pointer sampled in that frame.
C17_FrameOrder ==
    /\ pc = "tick" => frame = <<>>
    /\ pc = "draw" => frame = SubSeq(FullFrame, 1, 4)
    /\ pc \in {"poll", "shutdown"} => frame \in {<<>>, FullFrame}
    /\ ResolvedOnCurrentSample

\* a complete frame in which a press over an occupied tile selected its
\* piece
C17_Witness ==
    /\ pc = "poll"
    /\ frame = FullFrame
    /\ trace.selected
    /\ piece_selected # None
    /\ collidepoint(InnerTile(pieces[piece_selected].tile), mouse.pos)

\* no two pieces have the same home tile
DistinctHomes ==
    \A p, q \in Pieces : p # q => pieces[p].tile # pieces[q].tile

\* every tile/piece link is mutual, no two pieces share a home tile, and
\* there are as many occupied tiles as pieces
Consistent ==
    /\ \A p \in Pieces : InnerTile(pieces[p].tile).piece = p
    /\ \A t \in Tiles :
          InnerTile(t).piece # None => pieces[InnerTile(t).piece].tile = t
    /\ DistinctHomes
    /\ Cardinality({t \in Tiles : InnerTile(t).piece # None})
          = Cardinality(Pieces)

\* C18: if setup placed the pieces on pairwise distinct tiles the board is
\* consistent after setup and stays so through every tick: a setup step
\* that places distinctly ends consistent, and a step from a consistent
\* board ends consistent.
C18_TicksPreserveConsistency ==
    [][(/\ pc' # "constructed"
        /\ pc = "constructed" => DistinctHomes'
        /\ pc # "constructed" => Consistent)
       => Consistent']_vars

\* a consistent board on which a piece has just been moved
C18_Witness ==
    /\ pc = "draw"
    /\ trace.moved
    /\ Len(pieces) = NumPieces
    /\ Consistent
    /\ InnerTile(tmx_tile_selected).piece = trace.prev

\* a piece can be selected by pointing and clicking: the conditions of tick
\* select only _tmx_tile_selected.piece, so the piece has to be the
\* occupant of some inner tile (a press on that tile then selects it,
\* whatever is selected)
Selectable(p) == \E t \in Tiles : InnerTile(t).piece = p

\* C19: every piece placed by setup can be selected, for every placement.
\* (Stated as claimed; a piece that setup put on a tile that a later piece
\* was put on as well is no tile's occupant, and never becomes one.)
C19_EveryPieceSelectable ==
    pc # "constructed" => \A p \in Pieces : Selectable(p)

\* C20: the clear operations never run on an empty selection, so no tick
\* fails: clear_selected_tile runs only while a tile is referenced (a tile
\* flagged selected is the referenced one), clear_selected_piece only while
\* a piece is selected.
C20_NoClearOnEmpty ==
    /\ pc # "crashed"
    /\ \A t \in Tiles : InnerTile(t).selected => tmx_tile_selected = t
    /\ (trace.switched \/ trace.moved) => trace.prev # None

\* a tick in which both clear operations ran: the highlight went from one
\* tile to another and the selected piece was moved there
C20_Witness ==
    /\ pc = "draw"
    /\ trace.untiled
    /\ trace.moved
    /\ tmx_tile_selected # None
    /\ piece_selected = None

====
